---- MODULE Spec2Model ----
(***************************************************************************)
(* The real-time presence and chat-room coordination engine of the        *)
(* GlowSpace server (the socket.io part of the server entry file):        *)
(* the authentication middleware, the connection handler and the          *)
(* joinRoom, leaveRoom, typing, stopTyping, groupMessage, privateMessage  *)
(* and disconnect handlers, over the four process-wide maps activeUsers,  *)
(* chatRooms, messageTimestamps and typingUsers.                          *)
(*                                                                         *)
(* Every handler runs to its first await in one step (the node event loop *)
(* is single-threaded); an await on the message store is a suspension:    *)
(* the store acts at one moment and the handler's continuation runs at a  *)
(* later one, with any other event in between.                            *)
(*                                                                         *)
(* Participant ids are values compared by value, as the string ids of      *)
(* guests are.  Lists sent in payloads (participants, typing snapshot,    *)
(* presence list) are modelled as the set of their participant ids.       *)
(***************************************************************************)
EXTENDS Integers, Sequences, FiniteSets, TLC

\* ---------------------------------------------------------------- bounds
Conns == {"c1", "c2"}          \* transport connections that may ever connect
Rooms == {"r1", "r2"}          \* room names clients use
RoomList == <<"r1", "r2">>     \* the rooms, as a list, for loops over chatRooms
Users == {1}                   \* records of the auth store
ConnList == <<"c1", "c2">>     \* the connections, in the order they connect
MaxMsgs == 1                   \* group messages ever handed to the store
MaxOrderMsgs == 2              \* the same, of the ordering specification
MaxTicks == 2                  \* clock advances

\* ------------------------------------------------------ program constants
RateWindow == 1000             \* timestamp - time < 1000
RateBurst == 5                 \* recentMessages.length >= 5
HistoryLimit == 50             \* .limit(50)
TickStep == RateWindow \div 2  \* granularity of the modelled clock
SentBefore == RateBurst - 1    \* messages sent before the rate-limiter run

NoRoom == ""                   \* a missing / falsy room field
NoContent == ""                \* a missing / falsy content field
GuestId(t) == [kind |-> "guest", n |-> t]
UserId(k) == [kind |-> "user", n |-> k]
NoUser == [kind |-> "none", n |-> 0]
NoHist == <<>>

VARIABLES
  now,                \* Date.now()
  sockState,          \* per connection: new, live, closed, rejected
  userId,             \* socket.userId
  joined,             \* the rooms of the socket.io adapter each socket is in
  activeUsers,        \* Map participant id -> socket id
  chatRooms,          \* Map room -> Set of participant ids
  messageTimestamps,  \* Map participant id -> array of timestamps
  typingUsers,        \* Map participant id -> room
  store,              \* the Message collection, in commit order
  pending,            \* handlers suspended on an await of the message store
  nextOp,             \* the id of the next message document
  bcast,              \* per room, the ids of the groupMessage events emitted
  out,                \* the events emitted by the last step
  crashed,            \* an exception left a handler uncaught
  announced           \* per room, who userJoined named and no userLeft since

vars == <<now, sockState, userId, joined, activeUsers, chatRooms,
          messageTimestamps, typingUsers, store, pending, nextOp, bcast,
          out, crashed, announced>>

\* ------------------------------------------------------------ Map helpers
EmptyMap == [x \in {} |-> x]
MapSet(f, k, v) == [x \in DOMAIN f \cup {k} |-> IF x = k THEN v ELSE f[x]]
MapDel(f, k) == [x \in DOMAIN f \ {k} |-> f[x]]

\* ---------------------------------------------------------------- events
Event(ev, room, rcpt, user, users, msgs, id, message, cause) ==
  [ev |-> ev, room |-> room, rcpt |-> rcpt, user |-> user, users |-> users,
   msgs |-> msgs, id |-> id, message |-> message, cause |-> cause]

Ev(ev, room, rcpt, user, users, msgs, id, message) ==
  Event(ev, room, rcpt, user, users, msgs, id, message, "")

\* io.to(room): the connected sockets in the adapter room
RoomRcpt(ss, j, room) == {c \in Conns : ss[c] = "live" /\ room \in j[c]}
\* io.emit: every connected socket
AllRcpt(ss) == {c \in Conns : ss[c] = "live"}
\* socket.emit: the socket itself, nobody once it is gone
SelfRcpt(ss, c) == IF ss[c] = "live" THEN {c} ELSE {}

\* The catch blocks: socket.emit('error', {message}), and what
\* console.error and the handler's own log lines tell of it: the cause, the
\* socket's participant id, the room and the message document of the event.
ErrorEv(c, room, id, message, cause) ==
  Event("error", room, SelfRcpt(sockState, c), userId[c], {}, NoHist, id,
        message, cause)

\* What the rooms have been told of their members: a userJoined event
\* announces a participant to a room, a userLeft event takes that back, and
\* the end of the process ends every connection.  Told(an, evs) is an after
\* the events evs, in the order they were emitted.
NotAnnounced == [r \in Rooms |-> {}]

RECURSIVE Told(_, _)
Told(an, evs) ==
  IF evs = <<>> THEN an
  ELSE LET e == Head(evs)
           a == IF e.ev = "userJoined"
                  THEN [an EXCEPT ![e.room] = @ \cup {e.user}]
                ELSE IF e.ev = "userLeft" /\ e.room \in Rooms
                  THEN [an EXCEPT ![e.room] = @ \ {e.user}]
                ELSE an
       IN Told(a, Tail(evs))

\* An exception nothing catches ends the process: its maps, its sockets and
\* its suspended handlers are gone; the message store stays.
Crash ==
  /\ crashed' = TRUE
  /\ sockState' = [x \in Conns |-> "closed"]
  /\ userId' = [x \in Conns |-> NoUser]
  /\ joined' = [x \in Conns |-> {}]
  /\ activeUsers' = EmptyMap
  /\ chatRooms' = EmptyMap
  /\ messageTimestamps' = EmptyMap
  /\ typingUsers' = EmptyMap
  /\ pending' = {}
  /\ out' = <<>>
  /\ UNCHANGED <<now, store, nextOp, bcast>>

Init ==
  /\ now = 0
  /\ sockState = [c \in Conns |-> "new"]
  /\ userId = [c \in Conns |-> NoUser]
  /\ joined = [c \in Conns |-> {}]
  /\ activeUsers = EmptyMap
  /\ chatRooms = EmptyMap
  /\ messageTimestamps = EmptyMap
  /\ typingUsers = EmptyMap
  /\ store = <<>>
  /\ pending = {}
  /\ nextOp = 1
  /\ bcast = [r \in Rooms |-> <<>>]
  /\ out = <<>>
  /\ crashed = FALSE
  /\ announced = NotAnnounced

\* The clock advances.
Tick ==
  /\ ~crashed
  /\ now' = now + TickStep
  /\ out' = <<>>
  /\ UNCHANGED <<sockState, userId, joined, activeUsers, chatRooms,
                 messageTimestamps, typingUsers, store, pending, nextOp,
                 bcast, crashed>>

\* io.use(...): the authentication middleware.  tok is the handshake token:
\* "none", "bad" (jwt.verify throws), "good" (verifies, the record exists),
\* "orphan" (verifies, findById returns null); dbOk is whether findById
\* answers at all.  NoUser is next(new Error(...)).
ResolveIdentity(tok, dbOk, t) ==
  IF tok = "none" THEN GuestId(t)
  ELSE IF tok = "bad" THEN GuestId(t)
  ELSE IF ~dbOk THEN GuestId(t)
  ELSE IF tok = "orphan" THEN NoUser
  ELSE UserId(CHOOSE k \in Users : TRUE)

\* connect: the middleware from its last await on, and the connection
\* handler that socket.io runs right after next(): register presence and
\* broadcast the presence list.
Connect(c, tok, dbOk) ==
  /\ ~crashed
  /\ sockState[c] = "new"
  /\ LET u == ResolveIdentity(tok, dbOk, now) IN
       IF u = NoUser
         THEN /\ sockState' = [sockState EXCEPT ![c] = "rejected"]
              /\ out' = <<>>
              /\ UNCHANGED <<userId, activeUsers>>
         ELSE /\ sockState' = [sockState EXCEPT ![c] = "live"]
              /\ userId' = [userId EXCEPT ![c] = u]
              /\ activeUsers' = MapSet(activeUsers, u, c)
              /\ out' = <<Ev("activeUsers", NoRoom, AllRcpt(sockState'), NoUser,
                             DOMAIN activeUsers', NoHist, 0, "")>>
  /\ UNCHANGED <<now, joined, chatRooms, messageTimestamps, typingUsers,
                 store, pending, nextOp, bcast, crashed>>

\* ------------------------------------------------------------- joinRoom
\* The loop "leave previous rooms if any": the rooms other than `room` whose
\* member set holds u.
PrevRooms(u, room) ==
  {r \in DOMAIN chatRooms : u \in chatRooms[r] /\ r # room}

\* joinRoom that forgets the loop over the previous rooms.
LeavePreviousSkipped(u, room) == chatRooms

LeavePrevious(u, room) ==
  [r \in DOMAIN chatRooms |->
     IF r \in PrevRooms(u, room) THEN chatRooms[r] \ {u} ELSE chatRooms[r]]

\* chatRooms.set(room, new Set()) when absent, then .add(userId)
AddMember(cr, room, u) ==
  [r \in DOMAIN cr \cup {room} |->
     IF r = room THEN (IF room \in DOMAIN cr THEN cr[room] ELSE {}) \cup {u}
     ELSE cr[r]]

\* The userLeft events of a loop over chatRooms, one per room of rs.
LeftEvents(rs, u, ss, j) ==
  LET hit == SelectSeq(RoomList, LAMBDA r : r \in rs) IN
    [i \in 1..Len(hit) |->
       Ev("userLeft", hit[i], RoomRcpt(ss, j, hit[i]), u, {}, NoHist, 0, "")]

\* socket.on('joinRoom'), up to the await of Message.find.
JoinRoom(c, room) ==
  /\ ~crashed
  /\ sockState[c] = "live"
  /\ LET u == userId[c]
         prev == PrevRooms(u, room)
         jl == [joined EXCEPT ![c] = @ \ prev]
     IN
       /\ joined' = [jl EXCEPT ![c] = @ \cup {room}]
       /\ chatRooms' = AddMember(LeavePrevious(u, room), room, u)
       /\ out' = LeftEvents(prev, u, sockState, jl)
  /\ pending' = pending \cup
       {[id |-> 0, kind |-> "join", conn |-> c, room |-> room,
         stage |-> "wait", hist |-> NoHist, content |-> NoContent]}
  /\ UNCHANGED <<now, sockState, userId, activeUsers, messageTimestamps,
                 typingUsers, store, nextOp, bcast, crashed>>

\* Message.find({room}).sort({createdAt: 1}).limit(50): the store answers.
Take(s, n) == SubSeq(s, 1, IF Len(s) < n THEN Len(s) ELSE n)

RoomHistory(room) ==
  Take(SelectSeq(store, LAMBDA m : m.room = room), HistoryLimit)

FindRead(p) ==
  /\ ~crashed
  /\ p \in pending /\ p.kind = "join" /\ p.stage = "wait"
  /\ pending' = (pending \ {p}) \cup
       {[p EXCEPT !.stage = "read", !.hist = RoomHistory(p.room)]}
  /\ out' = <<>>
  /\ UNCHANGED <<now, sockState, userId, joined, activeUsers, chatRooms,
                 messageTimestamps, typingUsers, store, nextOp, bcast, crashed>>

\* The map over the members of a room reads user.username of every member:
\* a TypeError when the room is gone or a member has no presence entry.
ParticipantsThrow(room) ==
  \/ room \notin DOMAIN chatRooms
  \/ \E m \in chatRooms[room] : m \notin DOMAIN activeUsers

\* joinRoom after the await: chatHistory to the socket, userJoined and
\* updateParticipants to the room; any exception is caught.
JoinResume(p) ==
  /\ ~crashed
  /\ p \in pending /\ p.kind = "join" /\ p.stage = "read"
  /\ pending' = pending \ {p}
  /\ IF ParticipantsThrow(p.room)
       THEN /\ out' = <<ErrorEv(p.conn, p.room, 0, "Failed to join room", "TypeError")>>
       ELSE /\ out' =
                 <<Ev("chatHistory", NoRoom, SelfRcpt(sockState, p.conn), NoUser,
                      chatRooms[p.room], p.hist, 0, ""),
                   Ev("userJoined", p.room, RoomRcpt(sockState, joined, p.room),
                      userId[p.conn], {}, NoHist, 0, ""),
                   Ev("updateParticipants", p.room,
                      RoomRcpt(sockState, joined, p.room), NoUser,
                      chatRooms[p.room], NoHist, 0, "")>>
  /\ UNCHANGED <<now, sockState, userId, joined, activeUsers, chatRooms,
                 messageTimestamps, typingUsers, store, nextOp, bcast, crashed>>

\* Message.find rejects: the catch block.
FindFail(p) ==
  /\ ~crashed
  /\ p \in pending /\ p.kind = "join" /\ p.stage = "wait"
  /\ pending' = pending \ {p}
  /\ out' = <<ErrorEv(p.conn, p.room, 0, "Failed to join room", "find")>>
  /\ UNCHANGED <<now, sockState, userId, joined, activeUsers, chatRooms,
                 messageTimestamps, typingUsers, store, nextOp, bcast, crashed>>

\* ------------------------------------------------------------ leaveRoom
RemoveMember(cr, room, u) ==
  IF room \notin DOMAIN cr THEN cr
  ELSE IF cr[room] \ {u} = {} THEN MapDel(cr, room)
  ELSE [cr EXCEPT ![room] = @ \ {u}]

LeaveRoom(c, roomId) ==
  /\ ~crashed
  /\ sockState[c] = "live"
  /\ joined' = [joined EXCEPT ![c] = @ \ {roomId}]
  /\ chatRooms' = RemoveMember(chatRooms, roomId, userId[c])
  /\ out' = <<Ev("userLeft", roomId, RoomRcpt(sockState, joined', roomId),
                 userId[c], {}, NoHist, 0, "")>>
  /\ UNCHANGED <<now, sockState, userId, activeUsers, messageTimestamps,
                 typingUsers, store, pending, nextOp, bcast, crashed>>

\* --------------------------------------------------- typing, stopTyping
\* The typing snapshot of a room: the participants marked as typing in it.
TypingSnapshot(tu, room) == {u \in DOMAIN tu : tu[u] = room}

\* socket.on('typing').  hasData is whether the event carries a payload:
\* destructuring an absent payload throws, and so does user.username of a
\* typing participant without presence entry; nothing catches either.
Typing(c, hasData, room, isTyping) ==
  /\ ~crashed
  /\ sockState[c] = "live"
  /\ LET u == userId[c]
         tu == IF isTyping THEN MapSet(typingUsers, u, room)
               ELSE MapDel(typingUsers, u)
     IN
       IF ~hasData
         THEN Crash
       ELSE IF room = NoRoom \/ room \notin DOMAIN chatRooms
         THEN /\ out' = <<>>
              /\ UNCHANGED <<now, sockState, userId, joined, activeUsers,
                             chatRooms, messageTimestamps, typingUsers, store,
                             pending, nextOp, bcast, crashed>>
       ELSE IF \E t \in TypingSnapshot(tu, room) : t \notin DOMAIN activeUsers
         THEN Crash
       ELSE /\ typingUsers' = tu
            /\ out' = <<Ev("typingStatus", room, RoomRcpt(sockState, joined, room),
                           NoUser, TypingSnapshot(tu, room), NoHist, 0, "")>>
            /\ UNCHANGED <<now, sockState, userId, joined, activeUsers,
                           chatRooms, messageTimestamps, store, pending,
                           nextOp, bcast, crashed>>

\* socket.on('stopTyping').  The handler looks the ROOM up among the keys
\* of typingUsers, which are participant ids: who is the participant id
\* that the room string spells, NoUser for an ordinary room name.  No
\* socket is in an adapter room named after a participant id.
StopTyping(c, hasData, who) ==
  /\ ~crashed
  /\ sockState[c] = "live"
  /\ IF ~hasData
       THEN Crash
     ELSE IF who \in DOMAIN typingUsers
       THEN /\ typingUsers' = MapDel(typingUsers, userId[c])
            /\ out' = <<Ev("userStoppedTyping", NoRoom, {}, userId[c], {},
                           NoHist, 0, "")>>
            /\ UNCHANGED <<now, sockState, userId, joined, activeUsers,
                           chatRooms, messageTimestamps, store, pending,
                           nextOp, bcast, crashed>>
     ELSE /\ out' = <<>>
          /\ UNCHANGED <<now, sockState, userId, joined, activeUsers,
                         chatRooms, messageTimestamps, typingUsers, store,
                         pending, nextOp, bcast, crashed>>

\* ----------------------------------------------------------- groupMessage
\* userTimestamps.filter(time => timestamp - time < 1000)
RecentMessages(ts, t) == SelectSeq(ts, LAMBDA time : t - time < RateWindow)

UserTimestamps(u) ==
  IF u \in DOMAIN messageTimestamps THEN messageTimestamps[u] ELSE <<>>

\* A limiter that denies one message early.
RateDeniedEarly(u, t) ==
  Len(RecentMessages(UserTimestamps(u), t)) >= RateBurst - 1

RateDenied(u, t) == Len(RecentMessages(UserTimestamps(u), t)) >= RateBurst

\* The checks of the handler, in order: the message of the Error thrown,
\* "" when the message goes on to the store.
Rejection(c, room, content) ==
  IF room = NoRoom \/ content = NoContent THEN "Room and content are required"
  ELSE IF room \notin DOMAIN chatRooms THEN "Room does not exist"
  ELSE IF userId[c] \notin chatRooms[room] THEN "User is not in this room"
  ELSE IF RateDenied(userId[c], now) THEN "Message rate limit exceeded"
  ELSE ""

\* A handler that records the timestamp before it checks.
RejectedTimestampsCounted(u, t) ==
  MapSet(messageTimestamps, u, Append(UserTimestamps(u), t))

\* What a rejected groupMessage leaves in messageTimestamps: nothing new.
RejectedTimestamps(u, t) == messageTimestamps

\* socket.on('groupMessage'), up to the await of message.save().
GroupMessage(c, room, content) ==
  /\ ~crashed
  /\ sockState[c] = "live"
  /\ LET why == Rejection(c, room, content)
         u == userId[c]
     IN
       IF why # ""
         THEN /\ out' = <<ErrorEv(c, NoRoom, 0, why, "check")>>
              /\ messageTimestamps' = RejectedTimestamps(u, now)
              /\ UNCHANGED <<pending, nextOp>>
         ELSE /\ messageTimestamps' =
                   MapSet(messageTimestamps, u, Append(UserTimestamps(u), now))
              /\ pending' = pending \cup
                   {[id |-> nextOp, kind |-> "msg", conn |-> c, room |-> room,
                     stage |-> "wait", hist |-> NoHist, content |-> content]}
              /\ nextOp' = nextOp + 1
              /\ out' = <<>>
  /\ UNCHANGED <<now, sockState, userId, joined, activeUsers, chatRooms,
                 typingUsers, store, bcast, crashed>>

\* message.save(): the store commits the document.
SaveCommit(p) ==
  /\ ~crashed
  /\ p \in pending /\ p.kind = "msg" /\ p.stage = "wait"
  /\ store' = Append(store, [id |-> p.id, room |-> p.room,
                             sender |-> userId[p.conn], content |-> p.content])
  /\ pending' = (pending \ {p}) \cup {[p EXCEPT !.stage = "saved"]}
  /\ out' = <<>>
  /\ UNCHANGED <<now, sockState, userId, joined, activeUsers, chatRooms,
                 messageTimestamps, typingUsers, nextOp, bcast, crashed>>

\* A handler that gives the broadcast up when its socket has gone.
MsgResumeIfConnected(p) ==
  /\ ~crashed
  /\ p \in pending /\ p.kind = "msg" /\ p.stage = "saved"
  /\ pending' = pending \ {p}
  /\ IF sockState[p.conn] = "live"
       THEN /\ bcast' = [bcast EXCEPT ![p.room] = Append(@, p.id)]
            /\ out' = <<Ev("groupMessage", p.room,
                           RoomRcpt(sockState, joined, p.room),
                           userId[p.conn], {}, NoHist, p.id, "")>>
       ELSE /\ bcast' = bcast
            /\ out' = <<>>
  /\ UNCHANGED <<now, sockState, userId, joined, activeUsers, chatRooms,
                 messageTimestamps, typingUsers, store, nextOp, crashed>>

\* groupMessage after the await: broadcast the persisted message.
MsgResume(p) ==
  /\ ~crashed
  /\ p \in pending /\ p.kind = "msg" /\ p.stage = "saved"
  /\ pending' = pending \ {p}
  /\ bcast' = [bcast EXCEPT ![p.room] = Append(@, p.id)]
  /\ out' = <<Ev("groupMessage", p.room, RoomRcpt(sockState, joined, p.room),
                 userId[p.conn], {}, NoHist, p.id, "")>>
  /\ UNCHANGED <<now, sockState, userId, joined, activeUsers, chatRooms,
                 messageTimestamps, typingUsers, store, nextOp, crashed>>

\* A handler that broadcasts although the write failed.
SaveFailBroadcasts(p) ==
  /\ ~crashed
  /\ p \in pending /\ p.kind = "msg" /\ p.stage = "wait"
  /\ pending' = pending \ {p}
  /\ bcast' = [bcast EXCEPT ![p.room] = Append(@, p.id)]
  /\ out' = <<Ev("groupMessage", p.room, RoomRcpt(sockState, joined, p.room),
                 userId[p.conn], {}, NoHist, p.id, "")>>
  /\ UNCHANGED <<now, sockState, userId, joined, activeUsers, chatRooms,
                 messageTimestamps, typingUsers, store, nextOp, crashed>>

\* message.save() rejects: the catch block.
SaveFail(p) ==
  /\ ~crashed
  /\ p \in pending /\ p.kind = "msg" /\ p.stage = "wait"
  /\ pending' = pending \ {p}
  /\ out' = <<ErrorEv(p.conn, p.room, p.id, "save failed", "save")>>
  /\ UNCHANGED <<now, sockState, userId, joined, activeUsers, chatRooms,
                 messageTimestamps, typingUsers, store, nextOp, bcast, crashed>>

\* --------------------------------------------------------- privateMessage
\* socket.on('privateMessage'): the first connected socket of the
\* recipient; which one is first is left open.  An absent payload throws.
PrivateMessage(c, hasData, to) ==
  /\ ~crashed
  /\ sockState[c] = "live"
  /\ LET found == {s \in Conns : sockState[s] = "live" /\ userId[s] = to} IN
       IF ~hasData
         THEN Crash
       ELSE
         /\ IF found = {}
              THEN /\ out' = <<>>
              ELSE /\ \E s \in found :
                        out' = <<Ev("privateMessage", NoRoom, {s}, userId[c],
                                    {}, NoHist, 0, "")>>
         /\ UNCHANGED <<now, sockState, userId, joined, activeUsers,
                        chatRooms, messageTimestamps, typingUsers, store,
                        pending, nextOp, bcast, crashed>>

\* -------------------------------------------------------------- disconnect
\* A disconnect handler that leaves the memberships alone.
DropMemberSkipped(cr, u) == cr

\* The loop of the disconnect handler over chatRooms: the member is
\* deleted, the entry stays.
DropMember(cr, u) == [r \in DOMAIN cr |-> cr[r] \ {u}]

\* socket.on('disconnect').  socket.io has taken the socket out of its
\* adapter rooms before the handler runs.
Disconnect(c) ==
  /\ ~crashed
  /\ sockState[c] = "live"
  /\ LET u == userId[c]
         held == {r \in DOMAIN chatRooms : u \in chatRooms[r]}
     IN
       /\ sockState' = [sockState EXCEPT ![c] = "closed"]
       /\ joined' = [joined EXCEPT ![c] = {}]
       /\ activeUsers' = MapDel(activeUsers, u)
       /\ chatRooms' = DropMember(chatRooms, u)
       /\ typingUsers' = MapDel(typingUsers, u)
       /\ out' = <<Ev("activeUsers", NoRoom, AllRcpt(sockState'), NoUser,
                      DOMAIN activeUsers', NoHist, 0, "")>>
                 \o LeftEvents(held, u, sockState', joined')
  /\ UNCHANGED <<now, userId, messageTimestamps, store, pending, nextOp,
                 bcast, crashed>>

\* ----------------------------------------------------------- specification
\* The payloads of typing, and of stopTyping and privateMessage: none at
\* all, or the fields the handler reads.
NoData == [has |-> FALSE, room |-> NoRoom, isTyping |-> FALSE]
TypingData(RS) ==
  {NoData} \cup
  {[has |-> TRUE, room |-> r, isTyping |-> t] : r \in RS \cup {NoRoom}, t \in BOOLEAN}
NoName == [has |-> FALSE, who |-> NoUser]
NameData == {NoName} \cup {[has |-> TRUE, who |-> userId[c]] : c \in Conns}

\* Connections are named in the order they connect.
ConnIndex(c) == CHOOSE i \in 1..Len(ConnList) : ConnList[i] = c
InOrder(c) == \A i \in 1..(ConnIndex(c) - 1) : sockState[ConnList[i]] # "new"

\* Bound on the handlers suspended on the store at a time: one per socket
\* (B.each) or one in all.  Free(B, c): c may start a handler that awaits
\* the store.
Free(B, c) ==
  IF B.each THEN \A p \in pending : p.conn # c ELSE pending = {}

\* The inputs of a specification, B: the connections (conns) and the
\* tokens each may present (tokens), whether findById answers (db), what is
\* recorded for the rooms (track), the rooms joinRoom and leaveRoom name
\* (join), those typing names (typing) and those groupMessage names (named),
\* the senders and rooms of the messages that reach the store (senders,
\* stored) and how many do (maxMsgs).
\* The record of the announcements, kept by the specifications whose inputs
\* ask for it (B.track).
Note(B) ==
  announced' = IF ~B.track THEN announced
               ELSE IF crashed' THEN NotAnnounced
               ELSE Told(announced, out')

Handlers(B) ==
  \/ \E c \in B.conns : \E tok \in B.tokens[c], dbOk \in B.db :
       InOrder(c) /\ Connect(c, tok, dbOk) /\ Note(B)
  \/ \E c \in B.conns, r \in B.join : Free(B, c) /\ JoinRoom(c, r) /\ Note(B)
  \/ \E p \in pending : FindRead(p) /\ Note(B)
  \/ \E p \in pending : JoinResume(p) /\ Note(B)
  \/ \E p \in pending : FindFail(p) /\ Note(B)
  \/ \E c \in B.conns, r \in B.join : LeaveRoom(c, r) /\ Note(B)
  \/ \E c \in B.conns, d \in TypingData(B.typing) :
       Typing(c, d.has, d.room, d.isTyping) /\ Note(B)
  \/ \E c \in B.conns, d \in NameData : StopTyping(c, d.has, d.who) /\ Note(B)
  \/ \E c \in B.conns, r \in B.named \cup {NoRoom}, m \in {NoContent, "hi"} :
       /\ Rejection(c, r, m) = "" =>
            (Free(B, c) /\ nextOp <= B.maxMsgs /\ c \in B.senders /\ r \in B.stored)
       /\ GroupMessage(c, r, m)
       /\ Note(B)
  \/ \E p \in pending : SaveCommit(p) /\ Note(B)
  \/ \E p \in pending : MsgResume(p) /\ Note(B)
  \/ \E p \in pending : SaveFail(p) /\ Note(B)
  \/ \E c \in B.conns, d \in NameData : PrivateMessage(c, d.has, d.who) /\ Note(B)
  \/ \E c \in B.conns : Disconnect(c) /\ Note(B)

\* Two connections, two rooms, within one reading of the clock: two guests
\* share their id, a guest and a registered user do not.
GuestTokens == {"none", "bad"}
Tokens == {"none", "bad", "good", "orphan"}
SpecTokens == [c \in Conns |-> IF c = "c1" THEN GuestTokens ELSE Tokens]

SpecInputs ==
  [conns |-> Conns, tokens |-> SpecTokens, db |-> BOOLEAN,
   join |-> Rooms, typing |-> Rooms,
   named |-> Rooms, senders |-> {"c1"}, stored |-> {"r1"}, maxMsgs |-> MaxMsgs,
   each |-> FALSE,
   track |-> FALSE]

Next == Handlers(SpecInputs)

Spec == Init /\ [][Next]_vars

\* ---------------------------------------------------------------------
\* The rate limiter.  The run starts where a guest has connected, joined r2,
\* joined r1 and had SentBefore messages stored and broadcast there, all at
\* clock reading 0; from then on it joins and leaves r1 only, and the second
\* connection is a registered participant whose record the auth store returns.
Sent(n) ==
  [i \in 1..n |-> [id |-> i, room |-> "r1", sender |-> GuestId(0), content |-> "hi"]]

InitRate ==
  /\ now = 0
  /\ sockState = [c \in Conns |-> IF c = "c1" THEN "live" ELSE "new"]
  /\ userId = [c \in Conns |-> IF c = "c1" THEN GuestId(0) ELSE NoUser]
  /\ joined = [c \in Conns |-> IF c = "c1" THEN {"r1"} ELSE {}]
  /\ activeUsers = MapSet(EmptyMap, GuestId(0), "c1")
  /\ chatRooms = MapSet(MapSet(EmptyMap, "r2", {}), "r1", {GuestId(0)})
  /\ messageTimestamps = MapSet(EmptyMap, GuestId(0), [i \in 1..SentBefore |-> 0])
  /\ typingUsers = EmptyMap
  /\ store = Sent(SentBefore)
  /\ pending = {}
  /\ nextOp = SentBefore + 1
  /\ bcast = [r \in Rooms |-> IF r = "r1" THEN [i \in 1..SentBefore |-> i] ELSE <<>>]
  /\ out = <<Ev("groupMessage", "r1", {"c1"}, GuestId(0), {}, NoHist, SentBefore, "")>>
  /\ crashed = FALSE
  /\ announced = NotAnnounced

RateTokens == [c \in Conns |-> IF c = "c1" THEN GuestTokens ELSE {"good"}]

RateInputs ==
  [conns |-> Conns, tokens |-> RateTokens, db |-> {TRUE},
   join |-> {"r1"}, typing |-> {"r1"},
   named |-> Rooms, senders |-> {"c1"}, stored |-> {"r1"},
   maxMsgs |-> SentBefore + MaxMsgs, each |-> FALSE,
   track |-> FALSE]

NextRate ==
  \/ now < MaxTicks * TickStep /\ Tick /\ Note(RateInputs)
  \/ Handlers(RateInputs)

SpecRate == InitRate /\ [][NextRate]_vars

\* ---------------------------------------------------------------------
\* Two senders in one room, each with a message on its way to the store.
OrderTokens == [c \in Conns |-> IF c = "c1" THEN GuestTokens ELSE {"good"}]

OrderInputs ==
  [conns |-> Conns, tokens |-> OrderTokens, db |-> BOOLEAN,
   join |-> {"r1"}, typing |-> {"r1"},
   named |-> {"r1"}, senders |-> Conns, stored |-> {"r1"},
   maxMsgs |-> MaxOrderMsgs, each |-> TRUE,
   track |-> FALSE]

NextOrder == Handlers(OrderInputs)

SpecOrder == Init /\ [][NextOrder]_vars

\* ---------------------------------------------------------------------
\* The history read.  The process starts over a Message collection that
\* already holds HistoryLimit messages of r1; one connection joins, sends
\* and joins again.
InitHist ==
  /\ now = 0
  /\ sockState = [c \in Conns |-> "new"]
  /\ userId = [c \in Conns |-> NoUser]
  /\ joined = [c \in Conns |-> {}]
  /\ activeUsers = EmptyMap
  /\ chatRooms = EmptyMap
  /\ messageTimestamps = EmptyMap
  /\ typingUsers = EmptyMap
  /\ store = Sent(HistoryLimit)
  /\ pending = {}
  /\ nextOp = HistoryLimit + 1
  /\ bcast = [r \in Rooms |-> IF r = "r1" THEN [i \in 1..HistoryLimit |-> i] ELSE <<>>]
  /\ out = <<>>
  /\ crashed = FALSE
  /\ announced = NotAnnounced

HistTokens == [c \in Conns |-> GuestTokens]

HistInputs ==
  [conns |-> {"c1"}, tokens |-> HistTokens, db |-> BOOLEAN,
   join |-> {"r1"}, typing |-> {"r1"},
   named |-> {"r1"}, senders |-> {"c1"}, stored |-> {"r1"},
   maxMsgs |-> HistoryLimit + MaxMsgs, each |-> FALSE,
   track |-> FALSE]

NextHist == Handlers(HistInputs)

SpecHist == InitHist /\ [][NextHist]_vars

\* ---------------------------------------------------------------------
\* Authentication.  Every handshake carries a token that jwt.verify accepts;
\* the record it names exists or not, and the lookup answers or fails.
VerifiedTokens == {"good", "orphan"}
AuthTokens == [c \in Conns |-> VerifiedTokens]

AuthInputs ==
  [conns |-> Conns, tokens |-> AuthTokens, db |-> BOOLEAN,
   join |-> {"r1"}, typing |-> {"r1"},
   named |-> {"r1"}, senders |-> {"c1"}, stored |-> {"r1"}, maxMsgs |-> MaxMsgs,
   each |-> FALSE,
   track |-> FALSE]

NextAuth == Handlers(AuthInputs)

SpecAuth == Init /\ [][NextAuth]_vars

\* ---------------------------------------------------------------------
\* Joining again.  Two participants move between two rooms, and what each
\* room has been told of them is recorded.
JoinTokens == [c \in Conns |-> IF c = "c1" THEN {"none"} ELSE {"good"}]

JoinInputs ==
  [conns |-> Conns, tokens |-> JoinTokens, db |-> {TRUE},
   join |-> Rooms, typing |-> {"r1"},
   named |-> {"r1"}, senders |-> {"c1"}, stored |-> {"r1"}, maxMsgs |-> MaxMsgs,
   each |-> FALSE,
   track |-> TRUE]

NextJoin == Handlers(JoinInputs)

SpecJoin == Init /\ [][NextJoin]_vars

\* ============================================================ properties
Live(c) == sockState[c] = "live"
LiveIds == {userId[c] : c \in {x \in Conns : Live(x)}}
Members(r) == IF r \in DOMAIN chatRooms THEN chatRooms[r] ELSE {}
OutEvents == {out[i] : i \in DOMAIN out}
OutEventsNext == {out'[i] : i \in DOMAIN out'}

\* C1: in every reachable state each participant id is in the member set of
\* at most one room of chatRooms.
C1_InOneRoom ==
  \A r1 \in DOMAIN chatRooms, r2 \in DOMAIN chatRooms :
    r1 # r2 => chatRooms[r1] \cap chatRooms[r2] = {}

\* C1 witness: a joinRoom has just moved a participant: the other room was
\* told userLeft, its entry is still there, and the participant is a member
\* of the room the suspended joinRoom names.
C1_Witness ==
  \E e \in OutEvents, p \in pending :
    /\ e.ev = "userLeft" /\ p.kind = "join" /\ p.room # e.room
    /\ e.room \in DOMAIN chatRooms
    /\ e.user = userId[p.conn] /\ e.user \in Members(p.room)

\* C2: a groupMessage that passes the content, room and membership checks
\* is admitted if and only if fewer than RateBurst of the participant's
\* admitted timestamps are less than RateWindow old; the one beyond is
\* denied with the rate-limit error; and no RateWindow-wide window ever
\* holds more than RateBurst admitted timestamps of one participant.
RecentCount(u) ==
  Cardinality({i \in DOMAIN UserTimestamps(u) :
                 now - UserTimestamps(u)[i] < RateWindow})

WindowHolds ==
  \A u \in DOMAIN messageTimestamps :
    \A i \in DOMAIN messageTimestamps[u], j \in DOMAIN messageTimestamps[u] :
      j - i >= RateBurst =>
        messageTimestamps[u][j] - messageTimestamps[u][i] >= RateWindow

C2_RateLimit ==
  [][~crashed' =>
       /\ \A u \in DOMAIN messageTimestamps' :
            UserTimestamps(u) # messageTimestamps'[u] =>
              /\ RecentCount(u) < RateBurst
              /\ messageTimestamps'[u] = Append(UserTimestamps(u), now)
       /\ \A e \in OutEventsNext :
            e.message = "Message rate limit exceeded" =>
              /\ RecentCount(e.user) >= RateBurst
              /\ \E r \in Rooms : e.user \in Members(r)
       /\ WindowHolds']_vars

\* C2 witness: the message beyond the burst has just been denied.
C2_Witness ==
  \E e \in OutEvents :
    /\ e.message = "Message rate limit exceeded"
    /\ Len(UserTimestamps(e.user)) = RateBurst
    /\ RecentCount(e.user) = RateBurst

\* C3: a groupMessage event is emitted to a room only for a message already
\* in the store; when the write fails the message is never broadcast, only
\* the sender gets an error event and the write is not tried again.
StoredIds(r) ==
  {store[i].id : i \in {j \in DOMAIN store : store[j].room = r}}

BroadcastStored ==
  \A r \in Rooms : \A i \in DOMAIN bcast[r] : bcast[r][i] \in StoredIds(r)

C3_BroadcastAfterWrite ==
  [][/\ BroadcastStored'
     /\ \A e \in OutEventsNext :
          e.ev = "groupMessage" => e.id \in StoredIds(e.room)
     /\ \A e \in OutEventsNext :
          e.cause = "save" =>
            /\ Len(out') = 1
            /\ \A c \in e.rcpt : userId[c] = e.user
            /\ Cardinality(e.rcpt) <= 1
            /\ store' = store /\ bcast' = bcast
            /\ \A p \in pending' : p.id # e.id
            /\ \A r \in Rooms : e.id \notin StoredIds(r)
     /\ store' # store =>
          \E p \in pending :
            /\ p.kind = "msg" /\ p.stage = "wait"
            /\ Len(store') = Len(store) + 1
            /\ store'[Len(store')].id = p.id]_vars

\* C3 witness: a store write has just failed and its sender, still
\* connected, got the error event.
C3_Witness ==
  \E e \in OutEvents, c \in Conns :
    e.cause = "save" /\ e.rcpt = {c} /\ Live(c) /\ store = <<>>

\* C4: for every room, the groupMessage events are broadcast in the order
\* in which their messages were committed to the store.
StorePos(id) == CHOOSE i \in DOMAIN store : store[i].id = id

C4_BroadcastInCommitOrder ==
  \A r \in Rooms : \A i \in DOMAIN bcast[r], j \in DOMAIN bcast[r] :
    i < j => StorePos(bcast[r][i]) < StorePos(bcast[r][j])

\* C11: the history read of a joinRoom returns the most recent
\* min(HistoryLimit, n) of the n messages stored for the room at the time of
\* the read, oldest first, and that is what chatHistory carries; so a
\* message stored and broadcast before the join is in the joiner's history.
LastOf(s, n) == SubSeq(s, IF Len(s) > n THEN Len(s) - n + 1 ELSE 1, Len(s))

RoomMessages(room) == SelectSeq(store, LAMBDA m : m.room = room)

C11_HistoryIsLatest ==
  [][/\ \A p \in pending' \ pending :
          (p.kind = "join" /\ p.stage = "read") =>
            p.hist = LastOf(RoomMessages(p.room), HistoryLimit)
     /\ \A e \in OutEventsNext :
          e.ev = "chatHistory" =>
            \E p \in pending : p.kind = "join" /\ p.stage = "read"
                               /\ e.msgs = p.hist]_vars

\* C5: when joinRoom(r) fails because the history read fails, the requester
\* is not a member of r and not subscribed to r, nothing is broadcast, and
\* only the requester receives the error event.
C5_FailedJoinLeavesIdle ==
  \A e \in OutEvents :
    (e.ev = "error" /\ e.cause = "find") =>
      /\ Len(out) = 1
      /\ \A c \in e.rcpt :
           /\ userId[c] = e.user
           /\ e.user \notin Members(e.room)
           /\ e.room \notin joined[c]

\* C6: in every reachable state every room entry of chatRooms has a
\* non-empty member set.
C6_NoEmptyRoom == \A r \in DOMAIN chatRooms : chatRooms[r] # {}

\* C7: in every reachable state activeUsers holds an entry for a participant
\* id if and only if some connected socket resolved to that id.
C7_PresenceExact == DOMAIN activeUsers = LiveIds

\* C8: once a connection's disconnect is processed, whatever it had in
\* flight, its participant id is in no member set and has no typing mark,
\* every room that held it is sent userLeft, and for as long as no other
\* connection of that participant is connected this stays so and no typing
\* snapshot lists the participant.
Gone(c) == sockState[c] = "closed" /\ userId[c] \notin LiveIds

GoneStaysOut ==
  \A c \in Conns :
    Gone(c) =>
      /\ \A r \in DOMAIN chatRooms : userId[c] \notin chatRooms[r]
      /\ userId[c] \notin DOMAIN typingUsers
      /\ \A e \in OutEvents : e.ev = "typingStatus" => userId[c] \notin e.users

C8_DisconnectClears ==
  [][~crashed' =>
       /\ \A c \in Conns :
            (Live(c) /\ sockState'[c] = "closed") =>
              /\ \A r \in DOMAIN chatRooms' : userId[c] \notin chatRooms'[r]
              /\ userId[c] \notin DOMAIN typingUsers'
              /\ \A r \in DOMAIN chatRooms :
                   userId[c] \in chatRooms[r] =>
                     \E e \in OutEventsNext :
                       /\ e.ev = "userLeft" /\ e.room = r
                       /\ e.user = userId[c] /\ c \notin e.rcpt
       /\ GoneStaysOut']_vars

\* C8 witness: a connection was disconnected with a handler of its in
\* flight, the room it held has been sent userLeft, and no other connection
\* of its participant is left.
C8_Witness ==
  \E c \in Conns, p \in pending, e \in OutEvents :
    /\ Gone(c) /\ p.conn = c
    /\ e.ev = "userLeft" /\ e.user = userId[c] /\ e.room = p.room

\* C9: no inbound event leaves an exception uncaught.
C9_NoCrash == ~crashed

\* C10: a groupMessage rejected by the content, room, membership or rate
\* check is neither stored nor broadcast, sends exactly one error event, to
\* its sender, and changes no presence entry, member set, typing mark or
\* rate window.
C10_RejectionChangesNothing ==
  [][\A e \in OutEventsNext :
       (e.ev = "error" /\ e.cause = "check") =>
         /\ Len(out') = 1
         /\ \E c \in Conns : e.rcpt = {c} /\ userId[c] = e.user /\ Live(c)
         /\ UNCHANGED <<sockState, userId, joined, activeUsers, chatRooms,
                        messageTimestamps, typingUsers, store, pending,
                        nextOp, bcast, crashed>>]_vars

\* C10 witness: the rate limiter has just denied a message of a participant
\* who is in a room and is marked as typing.
C10_Witness ==
  \E e \in OutEvents :
    /\ e.cause = "check" /\ e.message = "Message rate limit exceeded"
    /\ e.user \in DOMAIN typingUsers
    /\ \E r \in Rooms : e.user \in Members(r)

\* C16: a joinRoom(r) from a connection that is already a member of r
\* leaves the membership table as it was, and no userJoined is broadcast
\* for a participant to a room that has been told userJoined for it and no
\* userLeft since.
C16_JoinIdempotent ==
  [][/\ \A c \in Conns, r \in Rooms :
          (userId[c] \in Members(r) /\ JoinRoom(c, r)) => chatRooms' = chatRooms
     /\ \A e \in OutEventsNext :
          e.ev = "userJoined" => e.user \notin announced[e.room]]_vars

\* C12: a typing event naming room r from a participant who is not a member
\* of r sets or clears no typing mark and broadcasts no typingStatus.
C12_TypingOnlyInRoom ==
  [][\A c \in Conns, r \in Rooms, t \in BOOLEAN :
       (userId[c] \notin Members(r) /\ Typing(c, TRUE, r, t)) =>
         /\ typingUsers' = typingUsers
         /\ \A e \in OutEventsNext : e.ev # "typingStatus"]_vars

\* C13: a connection whose token verifies is never admitted as a guest: it
\* is bound to the registered participant when the lookup returns the
\* record, and otherwise (no record, or the lookup fails) it is rejected and
\* no presence entry is registered for it.
C13_VerifiedNeverGuest ==
  [][\A c \in Conns, tok \in VerifiedTokens, dbOk \in BOOLEAN :
       Connect(c, tok, dbOk) =>
         IF tok = "good" /\ dbOk
           THEN Live(c)' /\ userId'[c].kind = "user"
           ELSE sockState'[c] = "rejected" /\ activeUsers' = activeUsers]_vars

\* C14: two distinct live connections resolved to guests have different
\* participant ids.
C14_GuestIdsUnique ==
  \A c \in Conns, d \in Conns :
    (c # d /\ Live(c) /\ Live(d) /\ userId[c].kind = "guest"
       /\ userId[d].kind = "guest") => userId[c] # userId[d]

\* C15: privateMessage changes no presence entry, member set, rate window,
\* typing mark or stored message; when a live connection has the participant
\* id of the `to` field exactly one privateMessage event with the sender's
\* id goes to one such connection, and when none has nothing is emitted.
C15_PrivateMessageTransient ==
  [][\A c \in Conns, d \in NameData :
       PrivateMessage(c, d.has, d.who) =>
         /\ UNCHANGED <<activeUsers, chatRooms, messageTimestamps, typingUsers,
                        store>>
         /\ LET found == {x \in Conns : Live(x) /\ userId[x] = d.who} IN
              IF found = {} THEN out' = <<>>
              ELSE /\ Len(out') = 1
                   /\ out'[1].ev = "privateMessage"
                   /\ out'[1].user = userId[c]
                   /\ \E x \in found : out'[1].rcpt = {x}]_vars

\* C17: a disconnect cancels no store write of its connection; when the
\* write of a disconnected sender commits the message is stored, and when
\* its handler ends after the commit exactly one groupMessage event goes to
\* every connection still joined to the room, none to the disconnected one,
\* and no error event to anyone.
Closed(c) == sockState[c] = "closed"

C17_SendSurvivesDisconnect ==
  [][~crashed' =>
       /\ \A c \in Conns :
            (Live(c) /\ Closed(c)') =>
              \A p \in pending : p.conn = c => p \in pending'
       /\ \A p \in pending \ pending' :
            (p.kind = "msg" /\ Closed(p.conn)) =>
              IF p.stage = "wait"
                THEN \/ /\ [p EXCEPT !.stage = "saved"] \in pending'
                        /\ p.id \in {store'[i].id : i \in DOMAIN store'}
                     \/ \A e \in OutEventsNext : e.rcpt = {}
                ELSE /\ Len(out') = 1
                     /\ out'[1].ev = "groupMessage"
                     /\ out'[1].id = p.id
                     /\ out'[1].room = p.room
                     /\ out'[1].rcpt =
                          {x \in Conns : Live(x) /\ p.room \in joined[x]}
                     /\ p.conn \notin out'[1].rcpt
                     /\ p.id \in StoredIds(p.room)]_vars

\* C17 witness: the message of a participant whose every connection is
\* closed has just been broadcast, from the store, to a connection that is
\* still in the room.
C17_Witness ==
  \E e \in OutEvents :
    /\ e.ev = "groupMessage" /\ e.rcpt # {}
    /\ e.id \in StoredIds(e.room)
    /\ \A c \in Conns : userId[c] = e.user => Closed(c)
    /\ \E c \in Conns : userId[c] = e.user

\* C18: whenever userJoined for participant p (and the updateParticipants
\* list that goes with it) is broadcast to room r, p is a member of r in
\* chatRooms at that moment; stated for the broadcasts that reach a
\* connection.
C18_JoinedIsMember ==
  \A e \in OutEvents :
    /\ (e.ev = "userJoined" /\ e.rcpt # {}) => e.user \in Members(e.room)
    /\ e.ev = "updateParticipants" => e.users = Members(e.room)

\* C19: a live connection is subscribed to the broadcasts of room r if and
\* only if its participant id is in the member set of r in chatRooms.
C19_SubscribedIffMember ==
  \A c \in Conns, r \in Rooms :
    Live(c) => (r \in joined[c] <=> userId[c] \in Members(r))

\* C20: a participant with a typing mark for room r is a member of r, and a
\* typingStatus snapshot for r lists members of r only.
C20_TypingMarkIsMember ==
  /\ \A u \in DOMAIN typingUsers : u \in Members(typingUsers[u])
  /\ \A e \in OutEvents :
       e.ev = "typingStatus" => e.users \subseteq Members(e.room)

TypeOK ==
  /\ now \in Nat
  /\ sockState \in [Conns -> {"new", "live", "closed", "rejected"}]
  /\ \A c \in Conns : joined[c] \subseteq Rooms
  /\ DOMAIN chatRooms \subseteq Rooms
  /\ crashed \in BOOLEAN
  /\ DOMAIN announced = Rooms

====
